---- MODULE Spec2Model ----
(***************************************************************************)
(* rustly: Option<T>, Result<T, E> and the panic primitive.                *)
(*                                                                         *)
(* A program is a sequence of statements on one object, self, an Option or *)
(* a Result.  Every call is one action; what it returned is in ret, what   *)
(* was called (with its arguments) is in last, how often the supplied      *)
(* std::function objects ran is in calls.  __panic_impl is three           *)
(* statements: format (done by the call that enters it), fputs, abort.     *)
(*                                                                         *)
(* Payloads are integers: an "int"/"long" payload is the number itself, a  *)
(* "string" payload is an index into StrTab, the monostate payload is 0.   *)
(* The grave accents of the library's message texts are written as         *)
(* apostrophes, a TLA+ string cannot hold a grave accent.                  *)
(***************************************************************************)
EXTENDS Integers, Sequences, FiniteSets, TLC

\* ---------------------------------------------------------------- bounds
MaxVal == 1     \* int payloads are -(12 + MaxVal) and 0..MaxVal
MaxStr == 2     \* string payloads are StrTab[1..MaxStr]
MaxLine == 2    \* user call sites are lines FirstLine..FirstLine+MaxLine-1

FirstLine == 9

\* ------------------------------------------------------- types and values
Types == {"monostate", "int", "long", "string", "Plain"}
ValueTypes == {"int", "string"}

StrTab == <<"", "foo", "bar", "hiya">>

IntVals == {-(12 + MaxVal)} \cup (0..MaxVal)
StrVals == 1..MaxStr

\* the arithmetic types: bool (false 0, true 1) is the type filter() casts to
Arithmetic == {"int", "long", "bool"}

Vals(T) == CASE T = "monostate" -> {0}
             [] T = "int" -> IntVals
             [] T = "long" -> IntVals
             [] T = "bool" -> {0, 1}
             [] T = "string" -> StrVals
             [] T = "string_view" -> {0}     \* the empty view
             [] T = "FooBar" -> {0}          \* FooBar{}: all FooBar are equal
             [] T = "Plain" -> {0}           \* struct Plain {}: no operator==

\* T{} : the value-initialised payload
DefaultValue(T) == IF T = "string" THEN 1 ELSE 0

\* std::equality_comparable_with<T, U>
equality_comparable_with(T, U) ==
    \/ T = U /\ T # "Plain"      \* t == u must be a valid expression
    \/ {T, U} \subseteq Arithmetic

\* what a failed std::optional::value() / std::get<I>() throws
bad_optional_access == 900
bad_variant_access == 901

\* ------------------------------------------------------------------ Option
\* Option() : std::optional<T>()
OptionEmpty(T) == [ty |-> T, has |-> FALSE, v |-> 0]
\* Option(T t) : std::optional<T>(t)
OptionOf(T, t) == [ty |-> T, has |-> TRUE, v |-> t]
\* Option(const Option<std::monostate> &), Option(Option<std::monostate> &&)
OptionFromNone(T, other) == [ty |-> T, has |-> FALSE, v |-> 0]

\* Option(const Option &), Option(Option &&): the implicit ones keep the
\* value; for T = std::monostate they are the two None constructors above
OptionCopy(o) == IF o.ty = "monostate" THEN OptionFromNone(o.ty, o) ELSE o

Some(T, t) == OptionOf(T, t)
None(T) == OptionEmpty(T)

OptionsOf(T) == {OptionEmpty(T)} \cup {OptionOf(T, t) : t \in Vals(T)}
Options == UNION {OptionsOf(T) : T \in Types}

has_value(o) == o.has
value(o) == IF o.has THEN o.v ELSE bad_optional_access

\* is_some() without the test for the marker type
is_some_has_value(o) == has_value(o)

is_some(o) == ~(o.ty = "monostate") /\ has_value(o)
is_none(o) == ~is_some(o)

\* ------------------------------------------------------------------ Result
\* std::variant<T, E>{std::in_place_index<I>, x}
Variant(T, E, I, x) == [T |-> T, E |-> E, index |-> I, v |-> x]

Ok(T, E, t) == Variant(T, E, 0, t)
Err(T, E, e) == Variant(T, E, 1, e)

ResultsOf(T, E) == {Ok(T, E, t) : t \in Vals(T)} \cup {Err(T, E, e) : e \in Vals(E)}

std_get(r, I) == IF r.index = I THEN r.v ELSE bad_variant_access

is_ok(r) == r.index = 0
\* is_err() asking for the type of the alternative held, not its index
is_err_by_type(r) == IF r.index = 0 THEN r.T = r.E ELSE TRUE

is_err(r) == r.index = 1

\* ------------------------------------------------------------- return values
NoOpt == OptionEmpty("monostate")
NoRes == Variant("monostate", "monostate", 0, 0)

RetVoid == [k |-> "void", b |-> FALSE, ty |-> "monostate", v |-> 0, o |-> NoOpt, r |-> NoRes]
\* the call expression does not compile: it has no value
IllFormed == [k |-> "ill-formed", b |-> FALSE, ty |-> "monostate", v |-> 0, o |-> NoOpt, r |-> NoRes]
RetBool(b) == [RetVoid EXCEPT !.k = "bool", !.b = b]
RetVal(T, x) == [RetVoid EXCEPT !.k = "val", !.ty = T, !.v = x]
RetOpt(o) == [RetVoid EXCEPT !.k = "opt", !.o = o]
RetRes(r) == [RetVoid EXCEPT !.k = "res", !.r = r]

\* ---------------------------------------------------------- source locations
Loc(file, line) == [file |-> file, line |-> line]
UserLocs == {Loc("main.cpp", l) : l \in FirstLine..(FirstLine + MaxLine - 1)}
\* std::source_location::current() as evaluated inside Option::operator==
EqLoc == Loc("rustly/option.h", 54)

\* ------------------------------------------------------------------ strings
Digit(d) == CASE d = 0 -> "0" [] d = 1 -> "1" [] d = 2 -> "2" [] d = 3 -> "3"
              [] d = 4 -> "4" [] d = 5 -> "5" [] d = 6 -> "6" [] d = 7 -> "7"
              [] d = 8 -> "8" [] d = 9 -> "9"

RECURSIVE Digits(_)
Digits(n) == IF n < 10 THEN Digit(n) ELSE Digits(n \div 10) \o Digit(n % 10)

\* std::to_string(int) / std::format("{}", int)
IntToString(n) == IF n < 0 THEN "-" \o Digits(-n) ELSE Digits(n)

\* std::to_string(t) as result.h uses it on a payload
to_string(T, x) == IF T = "string" THEN StrTab[x]
                   ELSE IF T = "FooBar" THEN "foobar" ELSE IntToString(x)

\* an argument of std::format
ArgInt(i) == [ty |-> "int", i |-> i, s |-> ""]
ArgStr(s) == [ty |-> "string", i |-> 0, s |-> s]
FormatArg(a) == IF a.ty = "int" THEN IntToString(a.i) ELSE a.s

\* std::format(fmt, args...): fmt is the format string cut at its
\* replacement fields "{}"
RECURSIVE Format(_, _)
Format(fmt, args) ==
    IF fmt = <<>> THEN ""
    ELSE IF Head(fmt) = "{}"
         THEN FormatArg(Head(args)) \o Format(Tail(fmt), Tail(args))
         ELSE Head(fmt) \o Format(Tail(fmt), args)

\* ------------------------------------------------------------------- panic
NoPanic == [on |-> FALSE, loc |-> Loc("", 0), fmt |-> <<>>, args |-> <<>>]
\* a call of __panic_impl(loc, fmt, args...)
Panic(loc, fmt, args) == [on |-> TRUE, loc |-> loc, fmt |-> fmt, args |-> args]

DefaultFmt == <<"explicit panic">>

\* auto m = std::format("panicked at {}:{}\n{}\n", loc.file_name(), loc.line(), std::format(fmt, args...))
panic_message(p) ==
    Format(<<"panicked at ", "{}", ":", "{}", "\n", "{}", "\n">>,
           <<ArgStr(p.loc.file), ArgInt(p.loc.line), ArgStr(Format(p.fmt, p.args))>>)

\* ---------------------------------------------------------------- outcomes
\* what a call does: the value returned, how often f and the default
\* supplier were invoked, and the __panic_impl call it ends in (if any); a
\* member function that is not const adds, as this, its receiver as the call
\* leaves it
Returns(ret) == [ret |-> ret, nf |-> 0, nd |-> 0, panic |-> NoPanic]
ReturnsF(ret) == [ret |-> ret, nf |-> 1, nd |-> 0, panic |-> NoPanic]
ReturnsD(ret) == [ret |-> ret, nf |-> 0, nd |-> 1, panic |-> NoPanic]
Panics(loc, fmt, args) == [ret |-> RetVoid, nf |-> 0, nd |-> 0, panic |-> Panic(loc, fmt, args)]

\* a std::function applied to a value (an exception in flight stays one)
Apply(f, x) == IF x \in DOMAIN f THEN f[x] ELSE x

\* a nullary std::function (a supplier) called
Call0(d) == d[0]

\* std::convertible_to<T, R> and the conversion (R)x; between int and long
\* every value of IntVals is representable in both, so the cast keeps it; a
\* cast to bool gives true for every value but 0
convertible_to(T, R) == T = R \/ {T, R} \subseteq Arithmetic
Convert(T, R, x) == IF R = "bool" /\ T # "bool" THEN (IF x = 0 THEN 0 ELSE 1) ELSE x

\* the converting constructor std::variant<T, E>(x) that Result<T, E>(x) goes
\* through: the alternative is chosen by the static type X of x; with T = E
\* the choice is ambiguous and the call does not compile
variant_converts(T, E, X) == T # E /\ X \in {T, E}
VariantFrom(T, E, X, x) == Variant(T, E, IF X = T THEN 0 ELSE 1, x)

\* --------------------------------------------------- Option<T> member functions
\* expect() reporting the text of unwrap() instead of msg
Option_expect_fixed_text(o, msg, loc) ==
    IF is_some(o) THEN Returns(RetVal(o.ty, value(o)))
    ELSE Panics(loc, <<"called 'Option::unwrap()' on a 'None' value">>, <<>>)

Option_expect(o, msg, loc) ==
    IF is_some(o) THEN Returns(RetVal(o.ty, value(o)))
    ELSE Panics(loc, <<"{}">>, <<ArgStr(msg)>>)

Option_unwrap(o, loc) ==
    IF is_some(o) THEN Returns(RetVal(o.ty, value(o)))
    ELSE Panics(loc, <<"called 'Option::unwrap()' on a 'None' value">>, <<>>)

\* operator==(const Option<std::monostate> &) asking has_value() of the
\* left operand instead of is_none()
Option_eq_None_has_value(o, rhs) == Returns(RetBool(~has_value(o)))

\* operator==(const Option<std::monostate> &)
Option_eq_None(o, rhs) == Returns(RetBool(is_none(o)))

\* operator== unwrapping rhs without looking at the discriminants first
Option_eq_comparable_unguarded(o, rhs) ==
    LET u == Option_unwrap(rhs, EqLoc)
    IN IF u.panic.on THEN u ELSE Returns(RetBool(value(o) = u.ret.v))

\* operator==(const Option<U> &) requires std::equality_comparable_with<T, U>
Option_eq_comparable(o, rhs) ==
    IF is_none(o) # is_none(rhs) THEN Returns(RetBool(FALSE))
    ELSE IF is_none(o) /\ is_none(rhs) THEN Returns(RetBool(TRUE))
    ELSE LET u == Option_unwrap(rhs, EqLoc)
         IN IF u.panic.on THEN u ELSE Returns(RetBool(value(o) = u.ret.v))

\* the unconstrained operator== with || for &&
Option_eq_any_either(o, rhs) == Returns(RetBool((is_none(o) \/ is_none(rhs)) \/ FALSE))

\* operator==(const Option<U> &), unconstrained
Option_eq_any(o, rhs) == Returns(RetBool((is_none(o) /\ is_none(rhs)) \/ FALSE))

\* lhs == rhs after overload resolution (C++20: the reversed candidates
\* rhs.operator==(lhs) take part; a non-template beats a template, the
\* constrained template beats the unconstrained one)
Option_eq(lhs, rhs) ==
    IF rhs.ty = "monostate" THEN Option_eq_None(lhs, rhs)
    ELSE IF lhs.ty = "monostate" THEN Option_eq_None(rhs, lhs)
    ELSE IF equality_comparable_with(lhs.ty, rhs.ty) THEN Option_eq_comparable(lhs, rhs)
    ELSE Option_eq_any(lhs, rhs)

\* is_some_and() asking has_value() instead of is_some()
Option_is_some_and_has_value(o, f) ==
    IF has_value(o) THEN ReturnsF(RetBool(Apply(f, value(o)))) ELSE Returns(RetBool(FALSE))

Option_is_some_and(o, f) ==
    IF is_some(o) THEN ReturnsF(RetBool(Apply(f, value(o)))) ELSE Returns(RetBool(FALSE))

\* unwrap_or(T def)
Option_unwrap_or(o, def) ==
    Returns(RetVal(o.ty, IF is_some(o) THEN value(o) ELSE def))
\* Option<std::monostate>::unwrap_or<U>(U def)
Option_monostate_unwrap_or(o, U, def) == Returns(RetVal(U, def))

\* unwrap_or_else(const std::function<T()> &f)
Option_unwrap_or_else(o, f) ==
    IF is_some(o) THEN Returns(RetVal(o.ty, value(o))) ELSE ReturnsD(RetVal(o.ty, Call0(f)))
\* Option<std::monostate>::unwrap_or_else<U>
Option_monostate_unwrap_or_else(o, U, f) == ReturnsD(RetVal(U, Call0(f)))

Option_unwrap_or_default(o) ==
    Returns(RetVal(o.ty, IF is_some(o) THEN value(o) ELSE DefaultValue(o.ty)))

\* map() wrapping the receiver's value instead of what f made of it
Option_map_drops_result(o, U, f) ==
    IF is_none(o) THEN Returns(RetOpt(OptionEmpty(U)))
    ELSE ReturnsF(RetOpt(OptionOf(U, value(o))))

\* map() calling f before looking at the discriminant
Option_map_eager(o, U, f) ==
    LET y == Apply(f, IF has_value(o) THEN o.v ELSE DefaultValue(o.ty))
    IN ReturnsF(RetOpt(IF is_none(o) THEN OptionEmpty(U) ELSE OptionOf(U, y)))

\* map<U>(const std::function<U(T)> &f)
Option_map(o, U, f) ==
    IF is_none(o) THEN Returns(RetOpt(OptionEmpty(U)))
    ELSE ReturnsF(RetOpt(OptionOf(U, Apply(f, value(o)))))
\* Option<std::monostate>::map<R, U>
Option_monostate_map(o, U, f) == Returns(RetOpt(OptionEmpty(U)))

Option_map_or(o, U, def, f) ==
    IF is_none(o) THEN Returns(RetVal(U, def)) ELSE ReturnsF(RetVal(U, Apply(f, value(o))))
Option_monostate_map_or(o, U, def, f) == Returns(RetVal(U, def))

Option_map_or_else(o, U, def, f) ==
    IF is_none(o) THEN ReturnsD(RetVal(U, Call0(def)))
    ELSE ReturnsF(RetVal(U, Apply(f, value(o))))
Option_monostate_map_or_else(o, U, def, f) == ReturnsD(RetVal(U, Call0(def)))

\* ok_or() taking the payload out of its receiver
Option_ok_or_taking(o, E, err) ==
    (IF ~(variant_converts(o.ty, E, E) /\ variant_converts(o.ty, E, o.ty))
     THEN Returns(IllFormed)
     ELSE IF is_none(o) THEN Returns(RetRes(VariantFrom(o.ty, E, E, err)))
     ELSE Returns(RetRes(VariantFrom(o.ty, E, o.ty, value(o)))))
        @@ [this |-> OptionEmpty(o.ty)]

\* ok_or<E>(E err): Result<T, E>(err) and Result<T, E>(this->value()) must
\* both compile
Option_ok_or(o, E, err) ==
    (IF ~(variant_converts(o.ty, E, E) /\ variant_converts(o.ty, E, o.ty))
     THEN Returns(IllFormed)
     ELSE IF is_none(o) THEN Returns(RetRes(VariantFrom(o.ty, E, E, err)))
     ELSE Returns(RetRes(VariantFrom(o.ty, E, o.ty, value(o))))) @@ [this |-> o]

\* ok_or_else<E>(const std::function<E()> &err)
Option_ok_or_else(o, E, err) ==
    (IF ~(variant_converts(o.ty, E, E) /\ variant_converts(o.ty, E, o.ty))
     THEN Returns(IllFormed)
     ELSE IF is_none(o) THEN ReturnsD(RetRes(VariantFrom(o.ty, E, E, Call0(err))))
     ELSE Returns(RetRes(VariantFrom(o.ty, E, o.ty, value(o))))) @@ [this |-> o]

\* and_b() with the test inverted
Option_and_b_inverted(o, optb) ==
    Returns(RetOpt(IF is_some(o) THEN OptionEmpty(optb.ty) ELSE OptionCopy(optb)))

\* and_b<U>(Option<U> optb)
Option_and_b(o, optb) ==
    Returns(RetOpt(IF is_none(o) THEN OptionEmpty(optb.ty) ELSE OptionCopy(optb)))

\* and_then() handing f a value-initialised T instead of the payload
Option_and_then_default_arg(o, U, f) ==
    IF is_none(o) THEN Returns(RetOpt(OptionEmpty(U)))
    ELSE ReturnsF(RetOpt(Apply(f, DefaultValue(o.ty))))

\* and_then<U>(const std::function<Option<U>(T)> &f)
Option_and_then(o, U, f) ==
    IF is_none(o) THEN Returns(RetOpt(OptionEmpty(U))) ELSE ReturnsF(RetOpt(Apply(f, value(o))))
\* Option<std::monostate>::and_then<R, U>
Option_monostate_and_then(o, U, f) == Returns(RetOpt(OptionEmpty(U)))

\* filter<R>(const std::function<bool(R)> &predicate) requires std::convertible_to<T, R>
Option_filter(o, R, predicate) ==
    IF is_some(o)
    THEN IF Apply(predicate, Convert(o.ty, R, value(o)))
         THEN ReturnsF(RetOpt(OptionOf(R, Convert(o.ty, R, value(o)))))
         ELSE ReturnsF(RetOpt(OptionEmpty(R)))
    ELSE Returns(RetOpt(OptionEmpty(R)))
\* Option<std::monostate>::filter<R>: Option<std::monostate>() converted to Option<R>
Option_monostate_filter(o, R, predicate) ==
    Returns(RetOpt(OptionFromNone(R, OptionEmpty("monostate"))))

\* or_b() handing back optb without looking at the receiver
Option_or_b_always_other(o, optb) == Returns(RetOpt(OptionCopy(optb)))

\* or_b(Option<T> optb)
Option_or_b(o, optb) ==
    Returns(RetOpt(IF is_some(o) THEN OptionCopy(o) ELSE OptionCopy(optb)))
\* or_b(Option<std::monostate> optb) requires (!std::same_as<T, std::monostate>)
Option_or_b_None(o, optb) ==
    Returns(RetOpt(IF is_some(o) THEN OptionCopy(o) ELSE OptionEmpty(o.ty)))
\* Option<std::monostate>::or_b<U>(Option<U> optb)
Option_monostate_or_b(o, optb) == Returns(RetOpt(OptionCopy(optb)))

\* or_else(const std::function<Option<T>()> &f)
Option_or_else(o, f) ==
    IF is_some(o) THEN Returns(RetOpt(OptionCopy(o))) ELSE ReturnsD(RetOpt(Call0(f)))
\* Option<std::monostate>::or_else<U>
Option_monostate_or_else(o, f) == ReturnsD(RetOpt(Call0(f)))

\* xor_b() without the case of two occupied operands
Option_xor_b_as_or(o, optb) ==
    Returns(RetOpt(IF is_some(o) THEN OptionCopy(o) ELSE OptionCopy(optb)))

\* xor_b(Option<T> optb)
Option_xor_b(o, optb) ==
    IF is_some(o) /\ is_none(optb) THEN Returns(RetOpt(OptionCopy(o)))
    ELSE IF is_none(o) /\ is_some(optb) THEN Returns(RetOpt(OptionCopy(optb)))
    ELSE Returns(RetOpt(OptionEmpty(o.ty)))
\* xor_b(Option<std::monostate> optb) requires (!std::same_as<T, std::monostate>)
Option_xor_b_None(o, optb) ==
    Returns(RetOpt(IF is_some(o) THEN OptionCopy(o) ELSE OptionEmpty(o.ty)))
\* Option<std::monostate>::xor_b<U>(Option<U> optb)
Option_monostate_xor_b(o, optb) ==
    Returns(RetOpt(IF is_some(optb) THEN OptionCopy(optb) ELSE OptionEmpty(optb.ty)))

\* ------------------------------------------------ Result<T, E> member functions
\* rustly::ToString<T> (display.h)
ToStringConcept(T) ==
    \/ T = "string"         \* std::convertible_to<T, std::string>
    \/ T \in Arithmetic     \* std::to_string(t) is valid
    \/ T = "FooBar"         \* t.to_string() is noexcept and gives a std::string

\* rustly::ToStream<T>: os << t is valid
ToStream(T) == T \in Arithmetic \cup {"string", "string_view"}

\* rustly::Display<T>
Display(T) == ToStringConcept(T) \/ ToStream(T)

\* operator== comparing the payloads and not the discriminants
Result_eq_payload_only(r, rhs) ==
    Returns(RetBool(std_get(r, r.index) = std_get(rhs, rhs.index)))

Result_eq(r, rhs) ==
    Returns(RetBool(\/ (is_ok(r) /\ is_ok(rhs) /\ std_get(r, 0) = std_get(rhs, 0))
                    \/ (is_err(r) /\ is_err(rhs) /\ std_get(r, 1) = std_get(rhs, 1))))

Result_is_ok_and(r, f) ==
    IF is_ok(r) THEN ReturnsF(RetBool(Apply(f, std_get(r, 0)))) ELSE Returns(RetBool(FALSE))

Result_is_err_and(r, f) ==
    IF is_err(r) THEN ReturnsF(RetBool(Apply(f, std_get(r, 1)))) ELSE Returns(RetBool(FALSE))

\* ok() wrapping the payload without looking at the discriminant
Result_ok_unchecked(r) == Returns(RetOpt(OptionOf(r.T, r.v)))

Result_ok(r) ==
    Returns(RetOpt(IF is_ok(r) THEN OptionOf(r.T, std_get(r, 0)) ELSE OptionEmpty(r.T)))

Result_err(r) ==
    Returns(RetOpt(IF is_err(r) THEN OptionOf(r.E, std_get(r, 1)) ELSE OptionEmpty(r.E)))

\* map<U>(const std::function<U(T)> &f): Result<U, E>(f(...)) and
\* Result<U, E>(std::get<1>(*this)) must both compile
Result_map(r, U, f) ==
    IF ~(variant_converts(U, r.E, U) /\ variant_converts(U, r.E, r.E)) THEN Returns(IllFormed)
    ELSE IF is_ok(r) THEN ReturnsF(RetRes(VariantFrom(U, r.E, U, Apply(f, std_get(r, 0)))))
    ELSE Returns(RetRes(VariantFrom(U, r.E, r.E, std_get(r, 1))))

Result_map_or(r, U, def, f) ==
    IF is_ok(r) THEN ReturnsF(RetVal(U, Apply(f, std_get(r, 0)))) ELSE Returns(RetVal(U, def))

\* map_or_else<U>(const std::function<U(E)> &d, const std::function<U(T)> &f)
Result_map_or_else(r, U, d, f) ==
    IF is_ok(r) THEN ReturnsF(RetVal(U, Apply(f, std_get(r, 0))))
    ELSE ReturnsD(RetVal(U, Apply(d, std_get(r, 1))))

\* map_err() letting std::variant choose the alternative by the payload's type
Result_map_err_inferred(r, F, op) ==
    IF is_ok(r) THEN Returns(RetRes(VariantFrom(r.T, F, r.T, std_get(r, 0))))
    ELSE ReturnsF(RetRes(VariantFrom(r.T, F, F, Apply(op, std_get(r, 1)))))

\* map_err<F>(const std::function<F(E)> &op)
Result_map_err(r, F, op) ==
    IF is_ok(r) THEN Returns(RetRes(Variant(r.T, F, 0, std_get(r, 0))))
    ELSE ReturnsF(RetRes(Variant(r.T, F, 1, Apply(op, std_get(r, 1)))))

\* expect() leaving the error payload out of the message
Result_expect_no_payload(r, msg, loc) ==
    IF is_ok(r) THEN Returns(RetVal(r.T, std_get(r, 0)))
    ELSE Panics(loc, <<"{}">>, <<ArgStr(msg)>>)

Result_expect(r, msg, loc) ==
    IF is_ok(r) THEN Returns(RetVal(r.T, std_get(r, 0)))
    ELSE Panics(loc, <<"{}", ": ", "{}">>, <<ArgStr(msg), ArgStr(to_string(r.E, std_get(r, 1)))>>)

\* unwrap() reporting its own line instead of the caller's
Result_unwrap_own_location(r, loc) ==
    IF is_ok(r) THEN Returns(RetVal(r.T, std_get(r, 0)))
    ELSE Panics(Loc("rustly/result.h", 274),
                <<"called 'Result::unwrap()' on an 'Err' value: ", "{}">>,
                <<ArgStr(to_string(r.E, std_get(r, 1)))>>)

Result_unwrap(r, loc) ==
    IF is_ok(r) THEN Returns(RetVal(r.T, std_get(r, 0)))
    ELSE Panics(loc, <<"called 'Result::unwrap()' on an 'Err' value: ", "{}">>,
                <<ArgStr(to_string(r.E, std_get(r, 1)))>>)

Result_unwrap_or(r, def) ==
    Returns(RetVal(r.T, IF is_ok(r) THEN std_get(r, 0) ELSE def))

\* unwrap_or_else(const std::function<T(E)> &op)
Result_unwrap_or_else(r, op) ==
    IF is_ok(r) THEN Returns(RetVal(r.T, std_get(r, 0)))
    ELSE ReturnsF(RetVal(r.T, Apply(op, std_get(r, 1))))

\* unwrap_or_default() giving the payload whichever alternative is held
Result_unwrap_or_default_any(r) == Returns(RetVal(r.T, r.v))

Result_unwrap_or_default(r) ==
    Returns(RetVal(r.T, IF is_ok(r) THEN std_get(r, 0) ELSE DefaultValue(r.T)))

Result_expect_err(r, msg, loc) ==
    IF is_err(r) THEN Returns(RetVal(r.E, std_get(r, 1)))
    ELSE Panics(loc, <<"{}", ": ", "{}">>, <<ArgStr(msg), ArgStr(to_string(r.T, std_get(r, 0)))>>)

Result_unwrap_err(r, loc) ==
    IF is_err(r) THEN Returns(RetVal(r.E, std_get(r, 1)))
    ELSE Panics(loc, <<"called 'Result::unwrap_err()' on an 'Ok' value: ", "{}">>,
                <<ArgStr(to_string(r.T, std_get(r, 0)))>>)

\* and_b() handing on the error of its argument when both are Err
Result_and_b_last_error(r, other) ==
    Returns(RetRes(IF is_ok(r) \/ is_err(other) THEN other
                   ELSE Variant(other.T, r.E, 1, std_get(r, 1))))

\* and_b<U>(Result<U, E> res)
Result_and_b(r, other) ==
    Returns(RetRes(IF is_ok(r) THEN other ELSE Variant(other.T, r.E, 1, std_get(r, 1))))

\* and_then<U>(std::function<Result<U, E>(T)> &op)
Result_and_then(r, U, op) ==
    IF is_ok(r) THEN ReturnsF(RetRes(Apply(op, std_get(r, 0))))
    ELSE Returns(RetRes(Variant(U, r.E, 1, std_get(r, 1))))

\* or_b() giving its argument whenever that is Ok
Result_or_b_prefers_other(r, other) ==
    Returns(RetRes(IF is_ok(r) /\ is_err(other) THEN Variant(r.T, other.E, 0, std_get(r, 0))
                   ELSE other))

\* or_b<F>(Result<T, F> res)
Result_or_b(r, other) ==
    Returns(RetRes(IF is_ok(r) THEN Variant(r.T, other.E, 0, std_get(r, 0)) ELSE other))

\* or_else<F>(std::function<Result<T, F>(E)> &op)
Result_or_else(r, F, op) ==
    (IF is_ok(r) THEN Returns(RetRes(Variant(r.T, F, 0, std_get(r, 0))))
     ELSE ReturnsF(RetRes(Apply(op, std_get(r, 1))))) @@ [this |-> r]

VARIABLES self, ret, last, calls, pc, m, stderr

vars == <<self, ret, last, calls, pc, m, stderr>>

IsOption(x) == "has" \in DOMAIN x
IsResult(x) == "index" \in DOMAIN x

\* expect(msg): the messages the program passes
Msgs == {"a message", "another message"}

\* the type parameters U, R, E, F the program instantiates templates with
TParams == ValueTypes

\* the std::function objects the program passes: the constant ones and, where
\* the types allow it, the one handing its argument on
ConstFns(D, Rng) == {[x \in D |-> y] : y \in Rng}
Fns(R, U) ==
    ConstFns(Vals(R), Vals(U))
        \cup (IF Vals(R) \subseteq Vals(U) THEN {[x \in Vals(R) |-> x]} ELSE {})
Preds(R) == [Vals(R) -> BOOLEAN]
Suppliers(S) == [{0} -> S]
OptFns(R, U) ==
    ConstFns(Vals(R), OptionsOf(U))
        \cup (IF Vals(R) \subseteq Vals(U) THEN {[x \in Vals(R) |-> Some(U, x)]} ELSE {})
ResFns(R, T, E) ==
    ConstFns(Vals(R), ResultsOf(T, E))
        \cup (IF Vals(R) \subseteq Vals(T) THEN {[x \in Vals(R) |-> Ok(T, E, x)]} ELSE {})
        \cup (IF Vals(R) \subseteq Vals(E) THEN {[x \in Vals(R) |-> Err(T, E, x)]} ELSE {})

\* the call recorded in last; self0 is the receiver as it was before it, f a
\* function to a payload, p a predicate, g a function to an Option or Result,
\* d a supplier of a payload (or the function of the error), dg a supplier of
\* an Option
NoCall == [op |-> "init", self0 |-> NoOpt, o |-> NoOpt, r |-> NoRes,
           U |-> "monostate", f |-> <<>>, p |-> <<>>, g |-> <<>>,
           d |-> <<>>, dg |-> <<>>, x |-> 0,
           msg |-> "", loc |-> Loc("", 0), fmt |-> <<>>, args |-> <<>>]

Here(op) == [NoCall EXCEPT !.op = op, !.self0 = self]

\* an exception left the call: std::optional::value() or std::get threw
Throws(rv) == {rv.v, rv.o.v, rv.r.v} \cap {bad_optional_access, bad_variant_access} # {}

Init ==
    /\ self = None("monostate")
    /\ ret = RetVoid
    /\ last = NoCall
    /\ calls = [f |-> 0, d |-> 0]
    /\ pc = "run"
    /\ m = ""
    /\ stderr = <<>>

\* one call of a function: it returns, or it enters __panic_impl, whose first
\* statement formats m; a const member function cannot change its receiver
Call(args, out) ==
    /\ pc = "run"
    /\ last' = args
    /\ self' = IF "this" \in DOMAIN out THEN out.this ELSE self
    /\ calls' = [f |-> out.nf, d |-> out.nd]
    /\ IF out.panic.on
       THEN /\ pc' = "fputs"
            /\ m' = panic_message(out.panic)
            /\ ret' = RetVoid
       ELSE /\ pc' = IF Throws(out.ret) THEN "terminated" ELSE "run"
            /\ m' = m
            /\ ret' = out.ret
    /\ UNCHANGED stderr

\* a statement that (re)binds self
Bind(args, s) ==
    /\ pc = "run"
    /\ last' = args
    /\ self' = s
    /\ ret' = RetVoid
    /\ calls' = [f |-> 0, d |-> 0]
    /\ UNCHANGED <<pc, m, stderr>>

\* ------------------------------------------------------------ panic.h
\* panic(...) : __panic_impl(std::source_location::current(), ##__VA_ARGS__)
\* the calls the program makes: panic(), panic("a message"),
\* panic("a message {}/{}", a, 2 * a), as in panic("a message {}/{}", 16, 32)
PanicArgs ==
    {<<FALSE, <<>>, <<>>>>, <<TRUE, <<"a message">>, <<>>>>}
        \cup {<<TRUE, <<"a message ", "{}", "/", "{}">>, <<ArgInt(a), ArgInt(2 * a)>>>> :
                a \in IntVals}

panic ==
    \E loc \in UserLocs, fa \in PanicArgs :
        Call([Here("panic") EXCEPT !.loc = loc, !.fmt = fa[2], !.args = fa[3]],
             Panics(loc, IF fa[1] THEN fa[2] ELSE DefaultFmt, fa[3]))

\* std::fputs(m.c_str(), stderr);
panic_impl_fputs ==
    /\ pc = "fputs"
    /\ stderr' = Append(stderr, m)
    /\ pc' = "abort"
    /\ UNCHANGED <<self, ret, last, calls, m>>

\* __panic_impl returning to its caller after the write
panic_impl_return ==
    /\ pc = "abort"
    /\ pc' = "run"
    /\ UNCHANGED <<self, ret, last, calls, m, stderr>>

\* std::abort();
panic_impl_abort ==
    /\ pc = "abort"
    /\ pc' = "aborted"
    /\ UNCHANGED <<self, ret, last, calls, m, stderr>>

\* ------------------------------------------------------------ constructing
Some_call ==
    \E T \in Types : \E t \in Vals(T) :
        Bind([Here("Some") EXCEPT !.U = T, !.x = t], Some(T, t))

None_call ==
    \E T \in Types : Bind([Here("None") EXCEPT !.U = T], None(T))

\* Option<T> x = None();  (None copy / move constructor)
Option_from_None ==
    \E T \in Types, other \in OptionsOf("monostate") :
        Bind([Here("Option(None)") EXCEPT !.U = T, !.o = other], OptionFromNone(T, other))

\* operator= that does not reset()
Option_assign_None_no_reset ==
    /\ IsOption(self)
    /\ \E other \in OptionsOf("monostate") :
        Bind([Here("Option::operator=") EXCEPT !.o = other], self)

\* x = None();  operator=(Option<std::monostate>) : this->reset()
Option_assign_None ==
    /\ IsOption(self)
    /\ \E other \in OptionsOf("monostate") :
        Bind([Here("Option::operator=") EXCEPT !.o = other],
             [self EXCEPT !.has = FALSE, !.v = 0])

\* auto x = <the Option just returned>;
Option_copy ==
    /\ ret.k = "opt"
    /\ Bind([Here("Option(Option)") EXCEPT !.o = ret.o], ret.o)

\* the template arguments <T, E> of Ok and Err: the payload types,
\* std::monostate for one of the two, and a class that has to_string() with
\* a type that can only be streamed
ResultParams ==
    (TParams \X TParams) \cup ({"monostate"} \X TParams) \cup (TParams \X {"monostate"})
        \cup {<<"FooBar", "string_view">>}

Ok_call ==
    \E te \in ResultParams : \E t \in Vals(te[1]) :
        Bind([Here("Ok") EXCEPT !.x = t], Ok(te[1], te[2], t))

Err_call ==
    \E te \in ResultParams : \E e \in Vals(te[2]) :
        Bind([Here("Err") EXCEPT !.x = e], Err(te[1], te[2], e))

\* auto x = <the Result just returned>;
Result_copy ==
    /\ ret.k = "res"
    /\ Bind([Here("Result(Result)") EXCEPT !.r = ret.r], ret.r)

\* the type parameter R of a std::function<U(R)> argument: T itself, except
\* for Option<std::monostate>, whose member templates take any R
RParams == IF self.ty = "monostate" THEN TParams \cup {"monostate"} ELSE {self.ty}

\* -------------------------------------------------------- calls on an Option
Option_eq_call ==
    /\ IsOption(self)
    /\ \E rhs \in Options :
        Call([Here("Option::operator==") EXCEPT !.o = rhs], Option_eq(self, rhs))

Option_is_some_call ==
    /\ IsOption(self)
    /\ Call(Here("Option::is_some"), Returns(RetBool(is_some(self))))

Option_is_none_call ==
    /\ IsOption(self)
    /\ Call(Here("Option::is_none"), Returns(RetBool(is_none(self))))

Option_is_some_and_call ==
    /\ IsOption(self)
    /\ \E f \in Preds(self.ty) :
        Call([Here("Option::is_some_and") EXCEPT !.p = f], Option_is_some_and(self, f))

Option_expect_call ==
    /\ IsOption(self)
    /\ \E msg \in Msgs, loc \in UserLocs :
        Call([Here("Option::expect") EXCEPT !.msg = msg, !.loc = loc],
             Option_expect(self, msg, loc))

Option_unwrap_call ==
    /\ IsOption(self)
    /\ \E loc \in UserLocs :
        Call([Here("Option::unwrap") EXCEPT !.loc = loc], Option_unwrap(self, loc))

\* overloads: unwrap_or(T) when the argument is a T, else the member template
\* unwrap_or<U>(U), which only Option<std::monostate> defines
Option_unwrap_or_call ==
    /\ IsOption(self)
    /\ \E U \in RParams : \E def \in Vals(U) :
        Call([Here("Option::unwrap_or") EXCEPT !.U = U, !.x = def],
             IF U = self.ty THEN Option_unwrap_or(self, def)
             ELSE Option_monostate_unwrap_or(self, U, def))

Option_unwrap_or_else_call ==
    /\ IsOption(self)
    /\ \E U \in RParams : \E f \in Suppliers(Vals(U)) :
        Call([Here("Option::unwrap_or_else") EXCEPT !.U = U, !.d = f],
             IF U = self.ty THEN Option_unwrap_or_else(self, f)
             ELSE Option_monostate_unwrap_or_else(self, U, f))

\* requires std::default_initializable<T>
Option_unwrap_or_default_call ==
    /\ IsOption(self)
    /\ Call(Here("Option::unwrap_or_default"), Option_unwrap_or_default(self))

\* overloads: map<U>(function<U(T)>) when f takes a T, else the member
\* template map<R, U>(function<U(R)>), which only Option<std::monostate> defines
Option_map_call ==
    /\ IsOption(self)
    /\ \E R \in RParams, U \in TParams : \E f \in Fns(R, U) :
        Call([Here("Option::map") EXCEPT !.U = U, !.f = f],
             IF R = self.ty THEN Option_map(self, U, f)
             ELSE Option_monostate_map(self, U, f))

Option_map_or_call ==
    /\ IsOption(self)
    /\ \E R \in RParams, U \in TParams : \E f \in Fns(R, U), def \in Vals(U) :
        Call([Here("Option::map_or") EXCEPT !.U = U, !.f = f, !.x = def],
             IF R = self.ty THEN Option_map_or(self, U, def, f)
             ELSE Option_monostate_map_or(self, U, def, f))

Option_map_or_else_call ==
    /\ IsOption(self)
    /\ \E R \in RParams, U \in TParams : \E f \in Fns(R, U), def \in Suppliers(Vals(U)) :
        Call([Here("Option::map_or_else") EXCEPT !.U = U, !.f = f, !.d = def],
             IF R = self.ty THEN Option_map_or_else(self, U, def, f)
             ELSE Option_monostate_map_or_else(self, U, def, f))

Option_ok_or_call ==
    /\ IsOption(self)
    /\ \E E \in TParams : \E err \in Vals(E) :
        Call([Here("Option::ok_or") EXCEPT !.U = E, !.x = err], Option_ok_or(self, E, err))

Option_ok_or_else_call ==
    /\ IsOption(self)
    /\ \E E \in TParams : \E err \in Suppliers(Vals(E)) :
        Call([Here("Option::ok_or_else") EXCEPT !.U = E, !.d = err],
             Option_ok_or_else(self, E, err))

Option_and_b_call ==
    /\ IsOption(self)
    /\ \E optb \in Options :
        Call([Here("Option::and_b") EXCEPT !.o = optb], Option_and_b(self, optb))

Option_and_then_call ==
    /\ IsOption(self)
    /\ \E R \in RParams, U \in TParams : \E f \in OptFns(R, U) :
        Call([Here("Option::and_then") EXCEPT !.U = U, !.g = f],
             IF R = self.ty THEN Option_and_then(self, U, f)
             ELSE Option_monostate_and_then(self, U, f))

\* overloads: the constrained filter<R> when T converts to R, else the
\* unconstrained member template, which only Option<std::monostate> defines
Option_filter_call ==
    /\ IsOption(self)
    /\ \E R \in (IF self.ty = "monostate" THEN RParams
                 ELSE {T \in Types \cup Arithmetic \cup {self.ty} : convertible_to(self.ty, T)}) :
        \E predicate \in Preds(R) :
            Call([Here("Option::filter") EXCEPT !.U = R, !.p = predicate],
                 IF convertible_to(self.ty, R) THEN Option_filter(self, R, predicate)
                 ELSE Option_monostate_filter(self, R, predicate))

\* overloads: or_b(Option<T>), or_b(Option<std::monostate>) unless T is
\* std::monostate, and Option<std::monostate>::or_b<U>(Option<U>)
Option_or_b_call ==
    /\ IsOption(self)
    /\ \E optb \in Options :
        /\ optb.ty \in {self.ty, "monostate"} \/ self.ty = "monostate"
        /\ Call([Here("Option::or_b") EXCEPT !.o = optb],
                IF optb.ty = self.ty THEN Option_or_b(self, optb)
                ELSE IF optb.ty = "monostate" THEN Option_or_b_None(self, optb)
                ELSE Option_monostate_or_b(self, optb))

Option_or_else_call ==
    /\ IsOption(self)
    /\ \E U \in RParams : \E f \in Suppliers(OptionsOf(U)) :
        Call([Here("Option::or_else") EXCEPT !.U = U, !.dg = f],
             IF U = self.ty THEN Option_or_else(self, f)
             ELSE Option_monostate_or_else(self, f))

Option_xor_b_call ==
    /\ IsOption(self)
    /\ \E optb \in Options :
        /\ optb.ty \in {self.ty, "monostate"} \/ self.ty = "monostate"
        /\ Call([Here("Option::xor_b") EXCEPT !.o = optb],
                IF optb.ty = self.ty THEN Option_xor_b(self, optb)
                ELSE IF optb.ty = "monostate" THEN Option_xor_b_None(self, optb)
                ELSE Option_monostate_xor_b(self, optb))

OptionNext ==
    \/ Some_call \/ None_call \/ Option_from_None \/ Option_assign_None \/ Option_copy
    \/ Option_eq_call \/ Option_is_some_call \/ Option_is_none_call
    \/ Option_is_some_and_call \/ Option_expect_call \/ Option_unwrap_call
    \/ Option_unwrap_or_call \/ Option_unwrap_or_else_call
    \/ Option_unwrap_or_default_call
    \/ Option_map_call \/ Option_map_or_call \/ Option_map_or_else_call
    \/ Option_ok_or_call \/ Option_ok_or_else_call
    \/ Option_and_b_call \/ Option_and_then_call \/ Option_filter_call
    \/ Option_or_b_call \/ Option_or_else_call \/ Option_xor_b_call

\* --------------------------------------------------------- calls on a Result
Result_eq_call ==
    /\ IsResult(self)
    /\ \E rhs \in ResultsOf(self.T, self.E) :
        Call([Here("Result::operator==") EXCEPT !.r = rhs], Result_eq(self, rhs))

Result_is_ok_call ==
    /\ IsResult(self)
    /\ Call(Here("Result::is_ok"), Returns(RetBool(is_ok(self))))

Result_is_err_call ==
    /\ IsResult(self)
    /\ Call(Here("Result::is_err"), Returns(RetBool(is_err(self))))

Result_is_ok_and_call ==
    /\ IsResult(self)
    /\ \E f \in Preds(self.T) :
        Call([Here("Result::is_ok_and") EXCEPT !.p = f], Result_is_ok_and(self, f))

Result_is_err_and_call ==
    /\ IsResult(self)
    /\ \E f \in Preds(self.E) :
        Call([Here("Result::is_err_and") EXCEPT !.p = f], Result_is_err_and(self, f))

Result_ok_call ==
    /\ IsResult(self)
    /\ Call(Here("Result::ok"), Result_ok(self))

Result_err_call ==
    /\ IsResult(self)
    /\ Call(Here("Result::err"), Result_err(self))

Result_map_call ==
    /\ IsResult(self)
    /\ \E U \in TParams : \E f \in Fns(self.T, U) :
        Call([Here("Result::map") EXCEPT !.U = U, !.f = f], Result_map(self, U, f))

Result_map_or_call ==
    /\ IsResult(self)
    /\ \E U \in TParams : \E f \in Fns(self.T, U), def \in Vals(U) :
        Call([Here("Result::map_or") EXCEPT !.U = U, !.f = f, !.x = def],
             Result_map_or(self, U, def, f))

Result_map_or_else_call ==
    /\ IsResult(self)
    /\ \E U \in TParams : \E f \in Fns(self.T, U), d \in Fns(self.E, U) :
        Call([Here("Result::map_or_else") EXCEPT !.U = U, !.f = f, !.d = d],
             Result_map_or_else(self, U, d, f))

Result_map_err_call ==
    /\ IsResult(self)
    /\ \E F \in TParams : \E op \in Fns(self.E, F) :
        Call([Here("Result::map_err") EXCEPT !.U = F, !.f = op], Result_map_err(self, F, op))

\* expect() constrained by Display<E> in place of ToString<E>
Result_expect_call_Display ==
    /\ IsResult(self)
    /\ Display(self.E)
    /\ \E msg \in Msgs, loc \in UserLocs :
        Call([Here("Result::expect") EXCEPT !.msg = msg, !.loc = loc],
             Result_expect(self, msg, loc))

\* requires ToString<E>
Result_expect_call ==
    /\ IsResult(self)
    /\ ToStringConcept(self.E)
    /\ \E msg \in Msgs, loc \in UserLocs :
        Call([Here("Result::expect") EXCEPT !.msg = msg, !.loc = loc],
             Result_expect(self, msg, loc))

Result_unwrap_call ==
    /\ IsResult(self)
    /\ ToStringConcept(self.E)
    /\ \E loc \in UserLocs :
        Call([Here("Result::unwrap") EXCEPT !.loc = loc], Result_unwrap(self, loc))

Result_unwrap_or_call ==
    /\ IsResult(self)
    /\ \E def \in Vals(self.T) :
        Call([Here("Result::unwrap_or") EXCEPT !.x = def], Result_unwrap_or(self, def))

Result_unwrap_or_else_call ==
    /\ IsResult(self)
    /\ \E op \in Fns(self.E, self.T) :
        Call([Here("Result::unwrap_or_else") EXCEPT !.f = op], Result_unwrap_or_else(self, op))

\* requires std::default_initializable<T>
Result_unwrap_or_default_call ==
    /\ IsResult(self)
    /\ Call(Here("Result::unwrap_or_default"), Result_unwrap_or_default(self))

\* requires ToString<T>
Result_expect_err_call ==
    /\ IsResult(self)
    /\ ToStringConcept(self.T)
    /\ \E msg \in Msgs, loc \in UserLocs :
        Call([Here("Result::expect_err") EXCEPT !.msg = msg, !.loc = loc],
             Result_expect_err(self, msg, loc))

Result_unwrap_err_call ==
    /\ IsResult(self)
    /\ ToStringConcept(self.T)
    /\ \E loc \in UserLocs :
        Call([Here("Result::unwrap_err") EXCEPT !.loc = loc], Result_unwrap_err(self, loc))

Result_and_b_call ==
    /\ IsResult(self)
    /\ \E U \in TParams : \E other \in ResultsOf(U, self.E) :
        Call([Here("Result::and_b") EXCEPT !.U = U, !.r = other], Result_and_b(self, other))

Result_and_then_call ==
    /\ IsResult(self)
    /\ \E U \in TParams : \E op \in ResFns(self.T, U, self.E) :
        Call([Here("Result::and_then") EXCEPT !.U = U, !.g = op],
             Result_and_then(self, U, op))

Result_or_b_call ==
    /\ IsResult(self)
    /\ \E F \in TParams : \E other \in ResultsOf(self.T, F) :
        Call([Here("Result::or_b") EXCEPT !.U = F, !.r = other], Result_or_b(self, other))

Result_or_else_call ==
    /\ IsResult(self)
    /\ \E F \in TParams : \E op \in ResFns(self.E, self.T, F) :
        Call([Here("Result::or_else") EXCEPT !.U = F, !.g = op],
             Result_or_else(self, F, op))

ResultNext ==
    \/ Ok_call \/ Err_call \/ Result_copy
    \/ Result_eq_call \/ Result_is_ok_call \/ Result_is_err_call
    \/ Result_is_ok_and_call \/ Result_is_err_and_call
    \/ Result_ok_call \/ Result_err_call
    \/ Result_map_call \/ Result_map_or_call \/ Result_map_or_else_call
    \/ Result_map_err_call
    \/ Result_expect_call \/ Result_unwrap_call
    \/ Result_unwrap_or_call \/ Result_unwrap_or_else_call
    \/ Result_unwrap_or_default_call
    \/ Result_expect_err_call \/ Result_unwrap_err_call
    \/ Result_and_b_call \/ Result_and_then_call
    \/ Result_or_b_call \/ Result_or_else_call

PanicNext == panic \/ panic_impl_fputs \/ panic_impl_abort

Next == OptionNext \/ ResultNext \/ PanicNext

Spec == Init /\ [][Next]_vars

\* the process keeps executing the statements of __panic_impl it has entered
FairSpec == Spec /\ WF_vars(panic_impl_fputs) /\ WF_vars(panic_impl_abort)

\* ================================================================== claims
\* an Option is occupied when it holds a payload of a type other than the
\* untyped marker, and empty otherwise
Occupied(o) == o.has /\ o.ty # "monostate"
Empty(o) == ~Occupied(o)

InPanic == pc \in {"fputs", "abort", "aborted"}

\* the display string of a payload, and the diagnostic of a panic at loc
Shown(T, x) == IF T = "string" THEN StrTab[x]
               ELSE IF T = "FooBar" THEN "foobar" ELSE ToString(x)
Diag(loc, msg) ==
    "panicked at " \o loc.file \o ":" \o ToString(loc.line) \o "\n" \o msg \o "\n"

\* C1: the abort primitive is entered only by expect/unwrap on an empty
\* Option, expect/unwrap on an Err, expect_err/unwrap_err on an Ok, or an
\* explicit panic; no other call leaves the running state (operator== of
\* Option, which calls unwrap on its right operand, included)
C1_AbortOnlyOnDemand ==
    pc # "run" =>
        \/ last.op = "panic"
        \/ last.op \in {"Option::expect", "Option::unwrap"} /\ Empty(self)
        \/ last.op \in {"Result::expect", "Result::unwrap"} /\ self.index = 1
        \/ last.op \in {"Result::expect_err", "Result::unwrap_err"} /\ self.index = 0

C1_Witness ==
    /\ last.op = "Option::operator=="
    /\ Occupied(self) /\ self.ty = "int"
    /\ last.o = None("long")
    /\ pc = "run" /\ ret = RetBool(FALSE)

\* C2: Option::expect(msg) and Option::unwrap() return the payload of an
\* occupied Option without aborting; on an empty one (typed or marker) they
\* abort, with msg for expect and the fixed text for unwrap
C2_OptionExpectUnwrap ==
    last.op \in {"Option::expect", "Option::unwrap"} =>
        IF Occupied(self)
        THEN pc = "run" /\ ret = RetVal(self.ty, self.v) /\ stderr = <<>>
        ELSE /\ InPanic
             /\ m = Diag(last.loc, IF last.op = "Option::expect" THEN last.msg
                                   ELSE "called 'Option::unwrap()' on a 'None' value")

C2_Witness ==
    /\ last.op = "Option::expect"
    /\ self = None("int")
    /\ pc = "aborted"
    /\ stderr = <<Diag(last.loc, "a message")>>

\* C3: expect/unwrap on Ok and expect_err/unwrap_err on Err return the
\* payload without aborting; otherwise they abort with a diagnostic that
\* ends with the display string of the opposing payload
C3_ResultExpectUnwrap ==
    /\ last.op \in {"Result::expect", "Result::unwrap"} =>
        IF self.index = 0
        THEN pc = "run" /\ ret = RetVal(self.T, self.v)
        ELSE /\ InPanic
             /\ m = Diag(last.loc,
                         IF last.op = "Result::expect"
                         THEN last.msg \o ": " \o Shown(self.E, self.v)
                         ELSE "called 'Result::unwrap()' on an 'Err' value: "
                                  \o Shown(self.E, self.v))
    /\ last.op \in {"Result::expect_err", "Result::unwrap_err"} =>
        IF self.index = 1
        THEN pc = "run" /\ ret = RetVal(self.E, self.v)
        ELSE /\ InPanic
             /\ m = Diag(last.loc,
                         IF last.op = "Result::expect_err"
                         THEN last.msg \o ": " \o Shown(self.T, self.v)
                         ELSE "called 'Result::unwrap_err()' on an 'Ok' value: "
                                  \o Shown(self.T, self.v))

C3_Witness ==
    /\ last.op = "Result::expect"
    /\ IsResult(self) /\ self.index = 1 /\ self.E = "int" /\ self.v < 0
    /\ pc = "aborted"
    /\ stderr = <<Diag(last.loc, last.msg \o ": -" \o ToString(-self.v))>>

\* the error stream holds the diagnostic once the write is done, nothing before
C4_Written ==
    /\ pc \in {"run", "fputs", "terminated"} => stderr = <<>>
    /\ pc \in {"abort", "aborted"} => stderr = <<m>>

\* a step taken outside the running state
C4_NoReturn ==
    pc # "run" =>
        /\ pc' # "run"
        /\ <<self, ret, last, calls, m>>' = <<self, ret, last, calls, m>>
        /\ pc = "fputs" => pc' = "abort"
        /\ pc = "abort" => pc' = "aborted"
        /\ pc \in {"aborted", "terminated"} => UNCHANGED vars

\* C4: the abort primitive does not return: it writes the diagnostic to the
\* error stream exactly once, before it terminates the process, no call is
\* made once it has been entered, the aborted state is final, and once
\* entered it does reach the aborted state
C4_AbortIsFinal ==
    /\ []C4_Written
    /\ [][C4_NoReturn]_vars
    /\ (InPanic ~> (pc = "aborted"))

C4_Witness ==
    /\ pc = "aborted"
    /\ last.op = "Option::unwrap"
    /\ Len(stderr) = 1

\* the message the last call asks the abort primitive to show
C5_Message ==
    CASE last.op = "panic" /\ last.fmt = <<>> -> "explicit panic"
      [] last.op = "panic" /\ last.fmt = <<"a message">> -> "a message"
      [] last.op = "panic" /\ Len(last.fmt) = 4 ->
            "a message " \o ToString(last.args[1].i) \o "/" \o ToString(last.args[2].i)
      [] last.op = "Option::expect" -> last.msg
      [] last.op = "Option::unwrap" -> "called 'Option::unwrap()' on a 'None' value"
      [] last.op = "Result::expect" -> last.msg \o ": " \o Shown(self.E, self.v)
      [] last.op = "Result::unwrap" ->
            "called 'Result::unwrap()' on an 'Err' value: " \o Shown(self.E, self.v)
      [] last.op = "Result::expect_err" -> last.msg \o ": " \o Shown(self.T, self.v)
      [] last.op = "Result::unwrap_err" ->
            "called 'Result::unwrap_err()' on an 'Ok' value: " \o Shown(self.T, self.v)
      [] OTHER -> ""

\* C5: the diagnostic is exactly "panicked at <file>:<line>\n<message>\n",
\* <file>:<line> being the call site of panic/expect/unwrap in the program,
\* <message> the format string with its arguments put in, in order, and
\* "explicit panic" when panic is given no format
C5_Diagnostic ==
    InPanic => last.loc \in UserLocs /\ m = Diag(last.loc, C5_Message)

C5_Witness ==
    /\ pc = "aborted"
    /\ last.op = "panic" /\ Len(last.args) = 2 /\ last.args[1] # last.args[2]
    /\ stderr = <<Diag(last.loc, C5_Message)>>

\* C6: on an empty Option (typed or the untyped marker) map, map_or,
\* map_or_else, and_then, filter and is_some_and do not invoke the function
\* taking the payload: its invocation count is 0 and the result is the
\* empty Option, the default, or false
C6_LazyOnEmpty ==
    (IsOption(self) /\ Empty(self)) =>
        /\ last.op \in {"Option::map", "Option::and_then", "Option::filter"} =>
                calls.f = 0 /\ pc = "run" /\ ret = RetOpt(None(last.U))
        /\ last.op = "Option::map_or" =>
                calls.f = 0 /\ pc = "run" /\ ret = RetVal(last.U, last.x)
        /\ last.op = "Option::map_or_else" =>
                calls.f = 0 /\ calls.d = 1 /\ pc = "run" /\ ret = RetVal(last.U, last.d[0])
        /\ last.op = "Option::is_some_and" =>
                calls.f = 0 /\ pc = "run" /\ ret = RetBool(FALSE)

C6_Witness ==
    /\ last.op = "Option::and_then"
    /\ self = None("monostate")
    /\ \E x \in DOMAIN last.g : Occupied(last.g[x])
    /\ calls.f = 0 /\ ret = RetOpt(None(last.U))

\* C7: Option equality: two empties are equal, an empty and an occupied one
\* are not, two occupied ones are equal iff their payload types are
\* comparable and the payloads are equal; no pair is an error
C7_OptionEquality ==
    last.op = "Option::operator==" =>
        /\ pc = "run"
        /\ ret = RetBool(\/ Empty(self) /\ Empty(last.o)
                         \/ /\ Occupied(self) /\ Occupied(last.o)
                            /\ equality_comparable_with(self.ty, last.o.ty)
                            /\ self.v = last.o.v)

C7_Witness ==
    /\ last.op = "Option::operator=="
    /\ Occupied(self) /\ self.ty = "int"
    /\ Occupied(last.o) /\ last.o.ty = "string"
    /\ ret = RetBool(FALSE)

\* C8: Result equality: equal iff both Ok with equal payloads or both Err
\* with equal payloads; an Ok and an Err are never equal, also when T and E
\* are the same type and the payloads the same value
C8_ResultEquality ==
    last.op = "Result::operator==" =>
        /\ pc = "run"
        /\ ret = RetBool(self.index = last.r.index /\ self.v = last.r.v)

C8_Witness ==
    /\ last.op = "Result::operator=="
    /\ self.T = self.E
    /\ self.index = 0 /\ last.r.index = 1 /\ self.v = last.r.v
    /\ ret = RetBool(FALSE)

\* C9: every Result the program holds or is handed (by Ok, Err, map, map_err,
\* and_b, and_then, or_b, or_else, ok_or, ok_or_else) is in exactly one of
\* the two states: is_ok() and is_err() are never both true, never both
\* false; Ok gives is_ok and Err gives is_err, also when T and E coincide
C9_ExactlyOneState ==
    /\ IsResult(self) => is_ok(self) # is_err(self)
    /\ ret.k = "res" => is_ok(ret.r) # is_err(ret.r)
    /\ last.op = "Ok" => is_ok(self) /\ ~is_err(self) /\ self.v = last.x
    /\ last.op = "Err" => is_err(self) /\ ~is_ok(self) /\ self.v = last.x
    /\ last.op = "Result::is_ok" => ret = RetBool(~is_err(self))
    /\ last.op = "Result::is_err" => ret = RetBool(~is_ok(self))

C9_Witness ==
    /\ last.op = "Result::is_err"
    /\ self.T = self.E
    /\ last.self0 = self /\ self.index = 0
    /\ ret = RetBool(FALSE)

\* C10 as stated: Some(v) of any payload type gives is_some() true and
\* is_none() false; None() and None<T>() give is_some() false and is_none()
\* true; is_none() is the negation of is_some()
C10_AsStated ==
    /\ last.op = "Option::is_some" => ret = RetBool(self.has)
    /\ last.op = "Option::is_none" => ret = RetBool(~self.has)

\* C10, amended: as stated for every payload type other than the untyped
\* marker type; an Option of the marker type gives is_some() false and
\* is_none() true also when made by Some
C10_IsSomeIsNone ==
    /\ last.op = "Option::is_some" =>
            pc = "run" /\ ret = RetBool(self.has /\ self.ty # "monostate")
    /\ last.op = "Option::is_none" =>
            pc = "run" /\ ret = RetBool(~(self.has /\ self.ty # "monostate"))
    /\ IsOption(self) => is_none(self) = ~is_some(self)
    /\ last.op = "Some" => self.has /\ self.v = last.x /\ self.ty = last.U
    /\ last.op \in {"None", "Option(None)", "Option::operator="} => ~self.has

C10_Witness ==
    /\ last.op = "Option::is_some"
    /\ self = Some("monostate", 0)
    /\ ret = RetBool(FALSE)

\* C11: an Option of the untyped marker type has is_some() false in every
\* reachable state, however it was made (None(), the value constructor with a
\* marker value, a copy, a returned value), and every operation on it gives
\* what it gives on an empty Option
C11_MarkerIsEmpty ==
    /\ (IsOption(self) /\ self.ty = "monostate") => ~is_some(self) /\ is_none(self)
    /\ (ret.k = "opt" /\ ret.o.ty = "monostate") => ~is_some(ret.o) /\ is_none(ret.o)
    /\ (IsOption(self) /\ self.ty = "monostate") =>
        /\ last.op = "Option::is_some" => ret = RetBool(FALSE)
        /\ last.op = "Option::is_none" => ret = RetBool(TRUE)
        /\ last.op = "Option::is_some_and" => ret = RetBool(FALSE) /\ calls.f = 0
        /\ last.op = "Option::operator==" => ret = RetBool(Empty(last.o))
        /\ last.op \in {"Option::expect", "Option::unwrap"} => InPanic
        /\ last.op \in {"Option::unwrap_or", "Option::map_or"} =>
                ret = RetVal(last.U, last.x) /\ calls.f = 0
        /\ last.op \in {"Option::unwrap_or_else", "Option::map_or_else"} =>
                ret = RetVal(last.U, last.d[0]) /\ calls.f = 0
        /\ last.op = "Option::unwrap_or_default" => ret = RetVal("monostate", 0)
        /\ last.op \in {"Option::map", "Option::and_then", "Option::filter"} =>
                ret = RetOpt(OptionEmpty(last.U)) /\ calls.f = 0
        /\ last.op = "Option::ok_or" =>
                ret.k = "res" /\ ret.r.index = 1 /\ ret.r.v = last.x
        /\ last.op = "Option::ok_or_else" =>
                ret.k = "res" /\ ret.r.index = 1 /\ ret.r.v = last.d[0]
        /\ last.op = "Option::and_b" => ret = RetOpt(OptionEmpty(last.o.ty))
        /\ last.op \in {"Option::or_b", "Option::xor_b"} =>
                ret = RetOpt(IF Occupied(last.o) THEN last.o ELSE OptionEmpty(last.o.ty))
        /\ last.op = "Option::or_else" => ret = RetOpt(last.dg[0])

C11_Witness ==
    /\ last.op = "Option::xor_b"
    /\ self = Some("monostate", 0)
    /\ Occupied(last.o)
    /\ ret = RetOpt(last.o)

\* C12: an Option<T> made from the untyped marker (copy or move
\* construction) is empty, and an Option<T> the marker was assigned to is
\* empty whatever it held before; both are equal to None<T>()
C12_MarkerConversion ==
    /\ last.op = "Option(None)" =>
            /\ self = None(last.U)
            /\ Option_eq(self, None(last.U)).ret = RetBool(TRUE)
    /\ last.op = "Option::operator=" =>
            /\ self = None(last.self0.ty)
            /\ Option_eq(self, None(last.self0.ty)).ret = RetBool(TRUE)
            /\ ~is_some(self)

C12_Witness ==
    /\ last.op = "Option::operator="
    /\ Occupied(last.self0) /\ last.self0.ty = "string"
    /\ last.o = Some("monostate", 0)
    /\ self = None("string")

\* C13: and_b(other) on an empty receiver (typed or marker) is the empty
\* Option of other's payload type; on an occupied receiver it is other: the
\* same payload type, the same Option when other is typed and one equal to
\* other when other is the marker; the receiver's value is never in the result
C13_AndB ==
    last.op = "Option::and_b" =>
        /\ pc = "run" /\ ret.k = "opt" /\ calls = [f |-> 0, d |-> 0]
        /\ ret.o.ty = last.o.ty
        /\ Empty(self) => ret.o = OptionEmpty(last.o.ty)
        /\ Occupied(self) =>
                /\ last.o.ty = "monostate" => Option_eq(ret.o, last.o).ret = RetBool(TRUE)
                /\ Occupied(ret.o) = Occupied(last.o)
                /\ last.o.ty # "monostate" => ret.o = last.o

C13_Witness ==
    /\ last.op = "Option::and_b"
    /\ Occupied(self) /\ self.ty = "int"
    /\ Occupied(last.o) /\ last.o.ty = "long" /\ last.o.v # self.v
    /\ ret = RetOpt(last.o)

\* C14: or_b(other) on an occupied receiver is the receiver, with its
\* payload; on an empty receiver it is other, and a marker other stands for
\* the empty Option of the receiver's type
C14_OrB ==
    last.op = "Option::or_b" =>
        /\ pc = "run" /\ ret.k = "opt" /\ calls = [f |-> 0, d |-> 0]
        /\ Occupied(self) => ret.o = self
        /\ Empty(self) =>
                ret.o = IF last.o.ty = "monostate" THEN OptionEmpty(self.ty) ELSE last.o

C14_Witness ==
    /\ last.op = "Option::or_b"
    /\ self = None("int")
    /\ last.o = Some("monostate", 0)
    /\ ret = RetOpt(None("int"))

\* C15: xor_b(other) is occupied iff exactly one of receiver and other is
\* occupied, and then it is that one, with its payload; it is empty when both
\* are occupied and when both are empty (typed or marker operands)
C15_XorB ==
    last.op = "Option::xor_b" =>
        /\ pc = "run" /\ ret.k = "opt" /\ calls = [f |-> 0, d |-> 0]
        /\ Occupied(ret.o) = (Occupied(self) # Occupied(last.o))
        /\ (Occupied(self) /\ Empty(last.o)) => ret.o = self
        /\ (Empty(self) /\ Occupied(last.o)) => ret.o = last.o
        /\ (Occupied(self) = Occupied(last.o)) => is_none(ret.o) /\ ~ret.o.has

C15_Witness ==
    /\ last.op = "Option::xor_b"
    /\ Occupied(self) /\ Occupied(last.o) /\ self.v # last.o.v
    /\ ret = RetOpt(None(self.ty))

\* C16 as stated: filter(predicate) on an empty receiver is empty; on an
\* occupied receiver holding v it is occupied with the same v iff
\* predicate(v) is true, and empty otherwise
C16_AsStated ==
    last.op = "Option::filter" =>
        /\ pc = "run" /\ ret.k = "opt"
        /\ Empty(self) => Empty(ret.o)
        /\ Occupied(self) =>
                /\ Occupied(ret.o) = last.p[Convert(self.ty, last.U, self.v)]
                /\ Occupied(ret.o) => ret.o.v = self.v

\* the receiver holds -13, the predicate takes a bool: the Option returned
\* holds true
C16_Witness ==
    /\ last.op = "Option::filter"
    /\ Occupied(self) /\ self.ty = "int" /\ self.v < 0
    /\ last.U = "bool"
    /\ ret = RetOpt(Some("bool", 1))

C18_AndThen ==
    last.op = "Option::and_then" =>
        /\ pc = "run" /\ ret.k = "opt" /\ ret.o.ty = last.U
        /\ Occupied(self) => ret.o = last.g[self.v] /\ calls.f = 1
        /\ Empty(self) => ret.o = None(last.U) /\ calls.f = 0

C18_Witness ==
    /\ last.op = "Option::and_then"
    /\ Occupied(self) /\ self.v # DefaultValue(self.ty)
    /\ \E x \in DOMAIN last.g : last.g[x] # last.g[self.v]
    /\ ret = RetOpt(last.g[self.v]) /\ Occupied(ret.o)
    /\ calls.f = 1

\* C19 as stated: for every Option o and error e, o.ok_or(e) and
\* o.ok_or_else(s) with s() = e are Ok(v) when o holds v and Err(e) when o is
\* empty; o.ok_or(e).ok() == o, and o.ok_or(e).err() == Some(e) for empty o
C19_AsStated ==
    last.op \in {"Option::ok_or", "Option::ok_or_else"} =>
        LET e == IF last.op = "Option::ok_or" THEN last.x ELSE last.d[0]
        IN /\ pc = "run" /\ ret.k = "res"
           /\ Occupied(self) => ret.r = Ok(self.ty, last.U, self.v)
           /\ Empty(self) =>
                /\ ret.r = Err(self.ty, last.U, e)
                /\ Option_eq(Result_err(ret.r).ret.o, Some(last.U, e)).ret = RetBool(TRUE)
           /\ Option_eq(Result_ok(ret.r).ret.o, self).ret = RetBool(TRUE)

\* Some(x).ok_or(e) with e of the type of x: no Result is made
C19_Witness ==
    /\ last.op = "Option::ok_or"
    /\ Occupied(self) /\ self.ty = "int" /\ last.U = "int"
    /\ ret = IllFormed

\* C20 as stated: ok() is Some(v) on Ok(v) and empty on Err, err() is
\* Some(e) on Err(e) and empty on Ok, and for every Result exactly one of
\* ok() and err() is occupied
C20_AsStated ==
    /\ last.op = "Result::ok" =>
            IF self.index = 0 THEN is_some(ret.o) /\ ret.o.v = self.v ELSE is_none(ret.o)
    /\ last.op = "Result::err" =>
            IF self.index = 1 THEN is_some(ret.o) /\ ret.o.v = self.v ELSE is_none(ret.o)
    /\ IsResult(self) =>
            is_some(Result_ok(self).ret.o) # is_some(Result_err(self).ret.o)

\* C20, amended: as stated for every Result whose payload (the Ok payload of
\* an Ok, the Err payload of an Err) is not of the untyped marker type; when
\* it is, ok() resp. err() is an Option of the marker type, which is never
\* occupied, so neither ok() nor err() is occupied
C20_OkErr ==
    /\ last.op = "Result::ok" =>
            /\ pc = "run"
            /\ ret = RetOpt(IF self.index = 0 THEN OptionOf(self.T, self.v)
                            ELSE OptionEmpty(self.T))
            /\ is_some(ret.o) = (self.index = 0 /\ self.T # "monostate")
    /\ last.op = "Result::err" =>
            /\ pc = "run"
            /\ ret = RetOpt(IF self.index = 1 THEN OptionOf(self.E, self.v)
                            ELSE OptionEmpty(self.E))
            /\ is_some(ret.o) = (self.index = 1 /\ self.E # "monostate")
    /\ IsResult(self) =>
            LET held == IF self.index = 0 THEN self.T ELSE self.E
                some_ok == is_some(Result_ok(self).ret.o)
                some_err == is_some(Result_err(self).ret.o)
            IN IF held = "monostate" THEN ~some_ok /\ ~some_err
               ELSE some_ok # some_err

C20_Witness ==
    /\ last.op = "Result::err"
    /\ self.index = 1 /\ self.T = self.E
    /\ ret = RetOpt(Some(self.E, self.v))
    /\ is_none(Result_ok(self).ret.o)

\* C21 as stated: for every target type U, the error type of the receiver
\* included, map(f) gives Ok(f(v)) on Ok(v), with f invoked once, and Err(e)
\* on Err(e), with e unchanged and f not invoked
C21_AsStated ==
    last.op = "Result::map" =>
        /\ pc = "run" /\ ret.k = "res"
        /\ is_ok(self) => ret.r = Ok(last.U, self.E, last.f[self.v]) /\ calls.f = 1
        /\ is_err(self) => ret.r = Err(last.U, self.E, self.v) /\ calls.f = 0

\* Ok(v).map<U>(f) with U the error type of the receiver: no Result is made
C21_Witness ==
    /\ last.op = "Result::map"
    /\ is_ok(self) /\ self.T = "int" /\ self.E = "int" /\ last.U = "int"
    /\ ret = IllFormed

\* C22: map_err(f) gives, on Ok(v), a Result equal to Ok(v) with f not
\* invoked and, on Err(e), Err(f(e)) with f invoked once; the result is Ok
\* exactly when the receiver is, also when T is the new error type
C22_MapErr ==
    last.op = "Result::map_err" =>
        /\ pc = "run" /\ ret.k = "res"
        /\ ret.r.T = self.T /\ ret.r.E = last.U
        /\ is_ok(ret.r) = is_ok(self) /\ is_err(ret.r) = is_err(self)
        /\ is_ok(self) =>
                /\ Result_eq(ret.r, Ok(self.T, last.U, self.v)).ret = RetBool(TRUE)
                /\ std_get(ret.r, 0) = self.v
                /\ calls.f = 0
        /\ is_err(self) =>
                /\ Result_eq(ret.r, Err(self.T, last.U, last.f[self.v])).ret = RetBool(TRUE)
                /\ std_get(ret.r, 1) = last.f[self.v]
                /\ calls.f = 1

\* Err(e).map_err(f) to the receiver's own success type, f(e) not being e
C22_Witness ==
    /\ last.op = "Result::map_err"
    /\ is_err(self) /\ self.T = last.U /\ self.E # self.T
    /\ last.f[self.v] # self.v
    /\ ret = RetRes(Err(self.T, self.T, last.f[self.v]))
    /\ calls.f = 1

\* C23: and_b(other) and and_then(f) give, on Err(e), Err(e) with the
\* receiver's own error and f not invoked and, on Ok(v), exactly other,
\* respectively f(v) with f invoked once
C23_AndResult ==
    /\ last.op = "Result::and_b" =>
            /\ pc = "run" /\ ret.k = "res" /\ calls = [f |-> 0, d |-> 0]
            /\ is_err(self) => ret.r = Err(last.U, self.E, self.v)
            /\ is_ok(self) => ret.r = last.r
    /\ last.op = "Result::and_then" =>
            /\ pc = "run" /\ ret.k = "res"
            /\ is_err(self) => ret.r = Err(last.U, self.E, self.v) /\ calls.f = 0
            /\ is_ok(self) => ret.r = last.g[self.v] /\ calls.f = 1

\* Err(e).and_b(Err(e2)) with e2 another error: the result carries e
C23_Witness ==
    /\ last.op = "Result::and_b"
    /\ is_err(self) /\ is_err(last.r) /\ last.r.v # self.v
    /\ last.U # self.T
    /\ ret = RetRes(Err(last.U, self.E, self.v))

\* C24: or_b(other) and or_else(f) give, on Ok(v), Ok(v) with the receiver's
\* value and f not invoked and, on Err(e), exactly other, respectively f(e)
\* with f invoked once; two Errs give the error of the second operand
C24_OrResult ==
    /\ last.op = "Result::or_b" =>
            /\ pc = "run" /\ ret.k = "res" /\ calls = [f |-> 0, d |-> 0]
            /\ is_ok(self) => ret.r = Ok(self.T, last.U, self.v)
            /\ is_err(self) => ret.r = last.r
            /\ is_err(self) /\ is_err(last.r) => ret.r = Err(self.T, last.U, last.r.v)
    /\ last.op = "Result::or_else" =>
            /\ pc = "run" /\ ret.k = "res"
            /\ is_ok(self) => ret.r = Ok(self.T, last.U, self.v) /\ calls.f = 0
            /\ is_err(self) => ret.r = last.g[self.v] /\ calls.f = 1

\* Ok(v).or_b(Ok(v2)) with v2 another value: the result carries v
C24_Witness ==
    /\ last.op = "Result::or_b"
    /\ is_ok(self) /\ is_ok(last.r) /\ last.r.v # self.v
    /\ last.U # self.E
    /\ ret = RetRes(Ok(self.T, last.U, self.v))

\* C25: unwrap_or, unwrap_or_else and unwrap_or_default of Option and Result
\* never abort; on an occupied Option / an Ok they return the held payload
\* and invoke nothing; otherwise unwrap_or(d) returns d, unwrap_or_else(f)
\* returns f(), resp. f(e) on Err(e), after one invocation of f, and
\* unwrap_or_default() returns the zero value of the payload type
C25_UnwrapOr ==
    /\ last.op \in {"Option::unwrap_or", "Option::unwrap_or_else",
                    "Option::unwrap_or_default", "Result::unwrap_or",
                    "Result::unwrap_or_else", "Result::unwrap_or_default"} =>
            pc = "run" /\ ret.k = "val" /\ m = "" /\ stderr = <<>>
    /\ last.op = "Option::unwrap_or" =>
            /\ Occupied(self) => ret = RetVal(self.ty, self.v)
            /\ Empty(self) => ret = RetVal(last.U, last.x)
            /\ calls = [f |-> 0, d |-> 0]
    /\ last.op = "Option::unwrap_or_else" =>
            /\ Occupied(self) => ret = RetVal(self.ty, self.v) /\ calls.d = 0
            /\ Empty(self) => ret = RetVal(last.U, last.d[0]) /\ calls.d = 1
    /\ last.op = "Option::unwrap_or_default" =>
            /\ Occupied(self) => ret = RetVal(self.ty, self.v)
            /\ Empty(self) => ret = RetVal(self.ty, DefaultValue(self.ty))
            /\ calls = [f |-> 0, d |-> 0]
    /\ last.op = "Result::unwrap_or" =>
            /\ is_ok(self) => ret = RetVal(self.T, self.v)
            /\ is_err(self) => ret = RetVal(self.T, last.x)
            /\ calls = [f |-> 0, d |-> 0]
    /\ last.op = "Result::unwrap_or_else" =>
            /\ is_ok(self) => ret = RetVal(self.T, self.v) /\ calls.f = 0
            /\ is_err(self) => ret = RetVal(self.T, last.f[self.v]) /\ calls.f = 1
    /\ last.op = "Result::unwrap_or_default" =>
            /\ is_ok(self) => ret = RetVal(self.T, self.v)
            /\ is_err(self) => ret = RetVal(self.T, DefaultValue(self.T))
            /\ calls = [f |-> 0, d |-> 0]

\* Err(e).unwrap_or_default() with e not the zero value of E
C25_Witness ==
    /\ last.op = "Result::unwrap_or_default"
    /\ is_err(self) /\ self.v # DefaultValue(self.E) /\ self.v # DefaultValue(self.T)
    /\ ret = RetVal(self.T, DefaultValue(self.T))
    /\ pc = "run"

\* C26: after every call of a query or combinator, const or not, that ends
\* or that entered the abort, the receiver has the state and payload it had
\* before the call; only construction and assignment give it a new state
C26_ReceiverUnchanged ==
    last.op \notin {"init", "Some", "None", "Option(None)", "Option(Option)",
                    "Option::operator=", "Ok", "Err", "Result(Result)"} =>
        self = last.self0

\* Some(x).ok_or(e), not declared const, has returned Ok(x) and the receiver
\* still holds x
C26_Witness ==
    /\ last.op = "Option::ok_or"
    /\ Occupied(last.self0) /\ last.self0.v # DefaultValue(last.self0.ty)
    /\ ret = RetRes(Ok(self.ty, last.U, last.self0.v))
    /\ self = last.self0

\* C27 as stated: on a Result<T, E>, expect and unwrap can be called exactly
\* when E is displayable (convertible to a string, formattable as a number,
\* having its own to_string(), or insertable into a stream), and expect_err
\* and unwrap_err exactly when T is
C27_AsStated ==
    (IsResult(self) /\ pc = "run") =>
        /\ (ENABLED Result_expect_call) = Display(self.E)
        /\ (ENABLED Result_unwrap_call) = Display(self.E)
        /\ (ENABLED Result_expect_err_call) = Display(self.T)
        /\ (ENABLED Result_unwrap_err_call) = Display(self.T)

\* C27, amended: expect and unwrap can be called exactly when E is
\* convertible to a string, formattable as a number by std::to_string, or
\* has its own noexcept to_string(), and expect_err and unwrap_err exactly
\* when T is; being insertable into a stream does not make them callable
C27_Gating ==
    (IsResult(self) /\ pc = "run") =>
        /\ (ENABLED Result_expect_call) = ToStringConcept(self.E)
        /\ (ENABLED Result_unwrap_call) = ToStringConcept(self.E)
        /\ (ENABLED Result_expect_err_call) = ToStringConcept(self.T)
        /\ (ENABLED Result_unwrap_err_call) = ToStringConcept(self.T)
        /\ (ToStream(self.E) /\ ~ToStringConcept(self.E)) =>
                ~ENABLED Result_expect_call /\ ~ENABLED Result_unwrap_call
        /\ (ToStream(self.T) /\ ~ToStringConcept(self.T)) =>
                ~ENABLED Result_expect_err_call /\ ~ENABLED Result_unwrap_err_call

\* expect_err() was called on an Err whose success type has its own
\* to_string(); its error type can only be streamed, and expect() and
\* unwrap() cannot be called on it
C27_Witness ==
    /\ last.op = "Result::expect_err"
    /\ IsResult(self) /\ is_err(self) /\ pc = "run"
    /\ self.T = "FooBar" /\ self.E = "string_view"
    /\ ret = RetVal(self.E, self.v)
    /\ ~ENABLED Result_expect_call /\ ~ENABLED Result_unwrap_call
    /\ ENABLED Result_unwrap_err_call

\* what None<T>() does when called as the last call was, and whether the
\* arguments of that call are arguments None<T>() can take
C28_Typed(T) ==
    CASE last.op = "Option::is_some" -> Returns(RetBool(is_some(None(T))))
      [] last.op = "Option::is_none" -> Returns(RetBool(is_none(None(T))))
      [] last.op = "Option::is_some_and" -> Option_is_some_and(None(T), last.p)
      [] last.op = "Option::operator==" -> Option_eq(None(T), last.o)
      [] last.op = "Option::expect" -> Option_expect(None(T), last.msg, last.loc)
      [] last.op = "Option::unwrap" -> Option_unwrap(None(T), last.loc)
      [] last.op = "Option::unwrap_or" -> Option_unwrap_or(None(T), last.x)
      [] last.op = "Option::unwrap_or_else" -> Option_unwrap_or_else(None(T), last.d)
      [] last.op = "Option::map" -> Option_map(None(T), last.U, last.f)
      [] last.op = "Option::map_or" -> Option_map_or(None(T), last.U, last.x, last.f)
      [] last.op = "Option::map_or_else" ->
            Option_map_or_else(None(T), last.U, last.d, last.f)
      [] last.op = "Option::ok_or" -> Option_ok_or(None(T), last.U, last.x)
      [] last.op = "Option::ok_or_else" -> Option_ok_or_else(None(T), last.U, last.d)
      [] last.op = "Option::and_b" -> Option_and_b(None(T), last.o)
      [] last.op = "Option::and_then" -> Option_and_then(None(T), last.U, last.g)
      [] last.op = "Option::filter" -> Option_filter(None(T), last.U, last.p)
      [] last.op = "Option::or_b" ->
            IF last.o.ty = T THEN Option_or_b(None(T), last.o)
            ELSE Option_or_b_None(None(T), last.o)
      [] last.op = "Option::or_else" -> Option_or_else(None(T), last.dg)
      [] last.op = "Option::xor_b" ->
            IF last.o.ty = T THEN Option_xor_b(None(T), last.o)
            ELSE Option_xor_b_None(None(T), last.o)
C28_Fits(T) ==
    CASE last.op \in {"Option::unwrap_or", "Option::unwrap_or_else", "Option::or_else",
                      "Option::filter"} -> T = last.U
      [] last.op \in {"Option::map", "Option::map_or", "Option::map_or_else"} ->
            DOMAIN last.f = Vals(T)
      [] last.op = "Option::and_then" -> DOMAIN last.g = Vals(T)
      [] last.op \in {"Option::or_b", "Option::xor_b"} -> last.o.ty \in {T, "monostate"}
      [] OTHER -> TRUE
\* the state is the one a call with the outcome out leaves: the same abort
\* and message, the same invocation counts, and a result of the same kind,
\* occupancy (or Ok/Err state) and payload
C28_Same(out) ==
    /\ calls = [f |-> out.nf, d |-> out.nd]
    /\ InPanic = out.panic.on
    /\ InPanic => m = panic_message(out.panic)
    /\ ~InPanic =>
            /\ ret.k = out.ret.k /\ ret.b = out.ret.b /\ ret.v = out.ret.v
            /\ Occupied(ret.o) = Occupied(out.ret.o)
            /\ Occupied(ret.o) => ret.o.v = out.ret.o.v
            /\ ret.r.index = out.ret.r.index /\ ret.r.v = out.ret.r.v

\* C28 as stated: each of the listed operations, called on the untyped
\* marker None(), gives what it gives on None<T>() with the same arguments,
\* for every T those arguments allow: the same occupancy and payload of the
\* result, the same abort and message, the same invocation counts
C28_AsStated ==
    (last.self0 = None("monostate") /\ last.op \in
        {"Option::is_some", "Option::is_none", "Option::is_some_and", "Option::operator==",
         "Option::expect", "Option::unwrap", "Option::unwrap_or", "Option::unwrap_or_else",
         "Option::map", "Option::map_or", "Option::map_or_else", "Option::ok_or",
         "Option::ok_or_else", "Option::and_b", "Option::and_then", "Option::filter",
         "Option::or_b", "Option::or_else", "Option::xor_b"}) =>
        \A T \in TParams : C28_Fits(T) => C28_Same(C28_Typed(T))

\* None().ok_or(e) is Err(e) while None<T>().ok_or(e), e being a T, makes
\* no Result
C28_Witness ==
    /\ last.op = "Option::ok_or" /\ last.self0 = None("monostate")
    /\ ret.k = "res" /\ is_err(ret.r) /\ ret.r.v = last.x
    /\ Option_ok_or(None(last.U), last.U, last.x).ret = IllFormed

\* C29 as stated: a map, and_b or and_then step on Err(e), whatever its
\* function or operand, gives Err(e) with the same e and invokes nothing,
\* and the Result it gives is the receiver of the next step of the chain, so
\* every Result of the chain is Err(e)
C29_AsStated ==
    [][/\ (pc = "run" /\ IsResult(self) /\ is_err(self)
            /\ last'.op \in {"Result::map", "Result::and_b", "Result::and_then"}) =>
                /\ pc' = "run" /\ self' = self
                /\ ret' = RetRes(Err(last'.U, self.E, self.v))
                /\ calls' = [f |-> 0, d |-> 0]
       /\ (pc = "run" /\ ret.k = "res" /\ is_err(ret.r)
            /\ last.op \in {"Result::map", "Result::and_b", "Result::and_then"}
            /\ last'.op = "Result(Result)") =>
                self' = ret.r /\ is_err(self')]_vars

\* Err(e).map<U>(f) with U the error type of the receiver: the chain has
\* no next Result
C29_Witness ==
    /\ last.op = "Result::map"
    /\ IsResult(self) /\ is_err(self) /\ last.U = self.E
    /\ ret = IllFormed

\* C30 as stated: Option equality is reflexive and symmetric over all Options:
\* a == a for every Option a, and a == b gives the answer of b == a for every
\* pair (marker on one side, comparable and incomparable payload types)
C30_AsStated ==
    last.op = "Option::operator==" =>
        /\ pc = "run"
        /\ ret = Option_eq(last.o, self).ret
        /\ last.o = self => ret = RetBool(TRUE)

\* C30: a == b gives the answer of b == a for every pair of Options and
\* neither comparison panics; a == a is true exactly when a is empty (the
\* marker included) or a's payload type is comparable with itself: an
\* occupied Option of a payload type without equality is unequal to itself
C30_SymmetricEquality ==
    last.op = "Option::operator==" =>
        /\ pc = "run" /\ ~Option_eq(last.o, self).panic.on
        /\ ret = Option_eq(last.o, self).ret
        /\ last.o = self =>
                ret = RetBool(Empty(self) \/ equality_comparable_with(self.ty, self.ty))

C30_Witness ==
    /\ last.op = "Option::operator=="
    /\ self = Some("Plain", 0) /\ last.o = self
    /\ ret = RetBool(FALSE)
    /\ Option_eq(last.o, self).ret = RetBool(FALSE)

====
